---- MODULE Spec2Model ----
(***************************************************************************)
(* The client session state machine of src/src/client.cpp driven by the    *)
(* connection of src/src/connection.cpp / src/include/connection.hpp.      *)
(*                                                                         *)
(* The client's callbacks are pure operators over a record `s' holding the *)
(* fields of client::impl and of the connection it owns; every action of   *)
(* the specification is one callback invocation by the executor.          *)
(*                                                                         *)
(* The specifications share the variables:                                 *)
(*   Spec      the client on the connection interface of connection.hpp;   *)
(*   ConnSpec  the connection of connection.cpp on its own, driven by its  *)
(*             socket, its keepalive timer and an application;             *)
(*   LifeSpec  that connection read, written to and disconnected;          *)
(*   ReadSpec  its read loop and what it asks of the socket;               *)
(*   WireSpec  its negotiation, its observers and what it writes;          *)
(*   NegSpec   the negotiators that answer the remote;                     *)
(*   SplitSpec the bytes it reads, split anywhere;                         *)
(*   OwnSpec   the connection as application.cpp owns it;                  *)
(*   AppSpec   the bookkeeping of application.cpp, one callback at a time; *)
(*   PoolSpec  the handlers of main.cpp's threads on the one io_service.   *)
(* Each leaves the variables of the others as constructed.                 *)
(***************************************************************************)
EXTENDS Integers, Sequences, FiniteSets, TLC

\* ------------------------------------------------------------------ bounds
\* Total number of protocol elements the remote sends while the transport lives.
MaxEvents == 4
\* Largest number of protocol elements one transport read uncovers.
MaxBuf == 3
\* The same two limits for a connection driven without the client.
MaxReceived == 3
MaxRead == 2
\* Most negotiation elements the remote sends to a connection whose output is
\* watched.
MaxWire == 3
\* Most bytes the remote sends to a connection whose parsing is watched.
MaxStream == 5
\* Most connections the server accepts.
MaxConns == 2
\* Most threads the process is started with.
MaxThreads == 2

\* --------------------------------------------------------- program constants
DefaultWidth == 80
DefaultHeight == 24
\* Seconds between two keepalive ticks.
KeepaliveInterval == 30

\* ------------------------------------------------------------------- inputs
\* Payload chunks handed to the data continuation (bytes as small numbers).
Chunks == {<<>>, <<1>>, <<2>>, <<1, 2>>}
TerminalTypes == {"xterm", "vt100"}
WindowSizes == {<<100, 40>>, <<DefaultWidth, DefaultHeight>>}
\* Identities of the connections, and of the threads.
Conns == 1..MaxConns
Threads == 1..MaxThreads
\* Continuations an application hands to async_get_terminal_type.
RequestIds == {"first", "second"}

\* A protocol element as the session's parser yields it.
Text(d) == [k |-> "text", data |-> d, type |-> "", size |-> <<>>]
TType(t) == [k |-> "ttype", data |-> <<>>, type |-> t, size |-> <<>>]
Naws(z) == [k |-> "naws", data |-> <<>>, type |-> "", size |-> z]
\* The remote's answer to the activation of the compression option.
Mccp(cmd) == [k |-> "mccp", data |-> <<>>, type |-> cmd, size |-> <<>>]
\* The remote announces (WILL) or withdraws (WONT) the terminal-type option.
TerminalTypeOption(cmd) == [k |-> "ttopt", data |-> <<>>, type |-> cmd, size |-> <<>>]
\* A command, and the negotiation of an option no callback is connected to.
Command(c) == [k |-> "command", data |-> <<>>, type |-> "", size |-> <<c>>]
Negotiation(c, option) == [k |-> "negotiation", data |-> <<>>, type |-> "", size |-> <<c, option>>]
Elements ==
    {Text(d) : d \in Chunks} \cup {TType(t) : t \in TerminalTypes}
        \cup {Naws(z) : z \in WindowSizes}

RECURSIVE SeqsUpTo(_, _)
SeqsUpTo(S, n) ==
    IF n = 0 THEN {<<>>}
    ELSE LET shorter == SeqsUpTo(S, n - 1)
         IN  shorter \cup {Append(q, e) : q \in {p \in shorter : Len(p) = n - 1}, e \in S}

Min(a, b) == IF a < b THEN a ELSE b

VARIABLES
    \* client::impl
    connection_state_,      \* "init", "setup", "main", "dead"
    state_,                 \* kind of the object state_ points to, "null" if none
    window_width_,
    window_height_,
    discarded_data_,
    canvas_,                \* main_state::canvas_ size, <<>> while no main_state exists
    \* connection::impl
    terminal_type_,         \* "" while unset
    terminal_type_requests_,
    on_window_size_changed_,
    keepalive_scheduled,    \* an async_wait on keepalive_timer_ is pending
    \* transport
    alive,                  \* socket is_alive()
    reads,                  \* async_read requests of the client not yet completed by the transport
    rx_active,              \* a completed transport read is being dispatched
    rx,                     \* the elements parsed from that read
    rx_pos,                 \* how many of them have been dispatched
    rx_state0,              \* connection_state_ when that read completed
    events,                 \* elements received so far
    \* history
    trace,                  \* calls made by the handler that ran last
    constructed,            \* state objects constructed so far, per kind
    setup_arrived,          \* payload passed to setup_state::handle_data, concatenated
    replayed,               \* arguments of the handle_data calls made by enter_main_state
    setup_size,             \* last size reported while in Setup (default if none)
    repaints,               \* number of repaints written
    first_repaint,          \* canvas size of the first repaint written, <<>> if none yet
    tt_fired,               \* values the client's terminal-type continuation fired with
    dead_from,              \* state left when Dead was entered, "none" before
    dead_cause,             \* what entered Dead: the handler, the call it had just made,
                            \* the buffer being dispatched
    \* connection::impl as src/src/connection.cpp implements it
    socket_,                \* "set", or "null" once disconnect has reset it
    on_data_read_,          \* the data observer, "none" while unset
    timer_fired,            \* the pending wait on keepalive_timer_: "no" while it runs,
                            \* "ok" once expired, "aborted" once cancelled (handler queued)
    sock_read,              \* an async_read of the connection is pending on the socket
    crashed,                \* the process has faulted
    \* history of the connection
    tt_calls,               \* terminal-type continuations invoked: who, with what
    reports,                \* terminal types the negotiator reported
    reg_at,                 \* per continuation: number of reports made before it was
                            \* registered, -1 while it is not registered
    payload_received,       \* payload bytes the session extracted, concatenated
    data_delivered,         \* payload bytes passed to the data observer, concatenated
    telnet_mccp_server_,    \* the compression negotiator: its option state, and
                            \* whether begin_compression has been requested of it
    telnet_mccp_codec_,     \* the codec: whether its compressor is on
    telnet_terminal_type_client_,   \* the terminal-type negotiator: its option state
    unparsed_buffer_,       \* bytes of an incomplete sequence the session holds back
    wire,                   \* what the handler that ran last put on the socket
    peer_decompressing,     \* the remote end has turned its decompressor on
    peer_got,               \* what the remote end decoded from the bytes of that handler
    notified,               \* calls of window-size observers: who, width, height
    naws_updates,           \* NAWS updates the negotiator raised: the observer
                            \* installed by then, width, height
    stream_in,              \* the bytes the read handlers were given so far, in order
    \* application::impl
    pending_connections_,   \* the vector, as a sequence of connection identities
    pending_sizes_,         \* the map, as a function from connection identities
    accepted,               \* connections the server has accepted so far
    app_last,               \* the callback of the application that ran last, and what
                            \* it found
    \* main: the threads that run the io_service
    concurrency,            \* number of threads started
    running,                \* per thread, the handler it is executing
    ready,                  \* handlers queued on the io_service
    waits                   \* asynchronous operations not yet completed

sessionVars ==
    <<connection_state_, state_, window_width_, window_height_, discarded_data_, canvas_,
      terminal_type_, terminal_type_requests_, on_window_size_changed_, keepalive_scheduled,
      alive, reads, rx_active, rx, rx_pos, rx_state0, events,
      trace, constructed, setup_arrived, replayed, setup_size, repaints, first_repaint,
      tt_fired, dead_from, dead_cause,
      socket_, on_data_read_, timer_fired, sock_read, crashed,
      tt_calls, reports, reg_at, payload_received, data_delivered,
      telnet_mccp_server_, telnet_mccp_codec_, telnet_terminal_type_client_,
      unparsed_buffer_, wire,
      peer_decompressing, peer_got, notified, naws_updates, stream_in>>

appVars == <<pending_connections_, pending_sizes_, accepted, app_last>>

poolVars == <<concurrency, running, ready, waits>>

vars == <<sessionVars, appVars, poolVars>>

\* The fields and the history of the connection of src/src/connection.cpp.
wireVars ==
    <<telnet_mccp_server_, telnet_mccp_codec_, telnet_terminal_type_client_,
      unparsed_buffer_, wire,
      peer_decompressing, peer_got, notified, naws_updates, stream_in>>

connVars ==
    <<socket_, on_data_read_, timer_fired, sock_read, crashed,
      tt_calls, reports, reg_at, payload_received, data_delivered, wireVars>>

\* The fields the callbacks read and write, as one record.
Cur ==
    [connection_state_ |-> connection_state_, state_ |-> state_,
     window_width_ |-> window_width_, window_height_ |-> window_height_,
     discarded_data_ |-> discarded_data_, canvas_ |-> canvas_,
     terminal_type_ |-> terminal_type_, terminal_type_requests_ |-> terminal_type_requests_,
     on_window_size_changed_ |-> on_window_size_changed_,
     keepalive_scheduled |-> keepalive_scheduled,
     alive |-> alive, reads |-> reads, rx |-> rx,
     trace |-> <<>>, handler |-> "none", replies |-> <<>>, available |-> <<>>,
     app |-> [pending_connections_ |-> pending_connections_,
              pending_sizes_ |-> pending_sizes_],
     constructed |-> constructed, setup_arrived |-> setup_arrived, replayed |-> replayed,
     setup_size |-> setup_size, repaints |-> repaints, first_repaint |-> first_repaint,
     tt_fired |-> tt_fired, dead_from |-> dead_from, dead_cause |-> dead_cause,
     socket_ |-> socket_, on_data_read_ |-> on_data_read_, timer_fired |-> timer_fired,
     sock_read |-> sock_read, crashed |-> crashed, oracle |-> "fault",
     tt_calls |-> tt_calls, reports |-> reports, reg_at |-> reg_at,
     payload_received |-> payload_received, data_delivered |-> data_delivered,
     telnet_mccp_server_ |-> telnet_mccp_server_, telnet_mccp_codec_ |-> telnet_mccp_codec_,
     telnet_terminal_type_client_ |-> telnet_terminal_type_client_,
     unparsed_buffer_ |-> unparsed_buffer_, wire |-> <<>>,
     peer_decompressing |-> peer_decompressing, peer_got |-> <<>>,
     notified |-> notified, naws_updates |-> naws_updates, stream_in |-> stream_in]

Becomes(s) ==
    /\ connection_state_' = s.connection_state_
    /\ state_' = s.state_
    /\ window_width_' = s.window_width_
    /\ window_height_' = s.window_height_
    /\ discarded_data_' = s.discarded_data_
    /\ canvas_' = s.canvas_
    /\ terminal_type_' = s.terminal_type_
    /\ terminal_type_requests_' = s.terminal_type_requests_
    /\ on_window_size_changed_' = s.on_window_size_changed_
    /\ keepalive_scheduled' = s.keepalive_scheduled
    /\ alive' = s.alive
    /\ reads' = s.reads
    /\ trace' = s.trace
    /\ constructed' = s.constructed
    /\ setup_arrived' = s.setup_arrived
    /\ replayed' = s.replayed
    /\ setup_size' = s.setup_size
    /\ repaints' = s.repaints
    /\ first_repaint' = s.first_repaint
    /\ tt_fired' = s.tt_fired
    /\ dead_from' = s.dead_from
    /\ dead_cause' = s.dead_cause
    /\ socket_' = s.socket_
    /\ on_data_read_' = s.on_data_read_
    /\ timer_fired' = s.timer_fired
    /\ sock_read' = s.sock_read
    /\ crashed' = s.crashed
    /\ tt_calls' = s.tt_calls
    /\ reports' = s.reports
    /\ reg_at' = s.reg_at
    /\ payload_received' = s.payload_received
    /\ data_delivered' = s.data_delivered
    /\ telnet_mccp_server_' = s.telnet_mccp_server_
    /\ telnet_mccp_codec_' = s.telnet_mccp_codec_
    /\ telnet_terminal_type_client_' = s.telnet_terminal_type_client_
    /\ unparsed_buffer_' = s.unparsed_buffer_
    /\ wire' = s.wire
    /\ peer_decompressing' = s.peer_decompressing
    /\ peer_got' = s.peer_got
    /\ notified' = s.notified
    /\ naws_updates' = s.naws_updates
    /\ stream_in' = s.stream_in

\* One entry of `trace'.
Call(op, who, arg) == [op |-> op, who |-> who, arg |-> arg]
Log(s, op, who, arg) == [s EXCEPT !.trace = Append(@, Call(op, who, arg))]
\* The handler starts: it is named, with the state it found, at the head of the trace.
Begin(s, handler) ==
    [s EXCEPT !.handler = handler,
              !.trace = <<Call("event", handler, <<>>), Call("from", s.connection_state_, <<>>)>>]

\* What a call leaves behind, and what it returns.
Ret(s, ret) == [s |-> s, ret |-> ret]

\* ------------------------------------------------------------- connection
\* A connection that has been disconnected counts as alive.
is_alive_or_released(s) == s.alive \/ s.socket_ = "null"

\* connection::is_alive: the liveness of the transport.
is_alive(s) == s.alive

\* connection::async_read: one more read is requested of the transport; its
\* continuations are the two closures of client::impl::schedule_next_read.
async_read(s) == Log([s EXCEPT !.reads = @ + 1], "async_read", "connection", <<>>)

\* What the build makes of undefined behaviour: the process faults, or it
\* carries on and the call yields one answer or the other.
Outcomes == {"fault", "alive", "not_alive"}

\* A member of the socket is used through the null socket_: undefined behaviour.
null_socket_use(s) ==
    Log([s EXCEPT !.crashed = (s.oracle = "fault")], "undefined", "socket_", <<>>)

\* socket_->is_alive()
socket_is_alive(s) ==
    IF s.socket_ = "null"
    THEN Ret(null_socket_use(s), s.oracle = "alive")
    ELSE Ret(s, s.alive)

\* A token of the outbound stream: an element for the session to render, or
\* the tag that tells the codec to start compressing.
Token(what, arg) == [what |-> what, arg |-> arg]
BeginCompressionTag == Token("begin_compression", <<>>)
\* The subnegotiation that tells the remote that compressed bytes follow it.
CompressionStarts == Token("subnegotiation", <<"mccp">>)

\* The bytes of an element as they leave the codec: through the compressor,
\* or as they are.
Compressed(token) == [z |-> TRUE, of |-> token]
Plain(token) == [z |-> FALSE, of |-> token]

\* What the remote's decoder makes of bytes: the element, if its decompressor
\* is on exactly for the bytes that went through the compressor.
Garbage == Token("garbage", <<>>)
Decoded(item, decompressing) == IF item.z = decompressing THEN item.of ELSE Garbage

\* The compressor is left off whatever passes the codec.
RECURSIVE codec_send_never_on(_, _)
codec_send_never_on(s, tokens) ==
    IF tokens = <<>> THEN Ret(s, <<>>)
    ELSE LET rest == codec_send_never_on(s, Tail(tokens))
         IN  IF Head(tokens).what = BeginCompressionTag.what THEN rest
             ELSE Ret(rest.s, <<Plain(Head(tokens))>> \o rest.ret)

\* telnet_mccp_codec_.send, then telnet_byte_converter_.send: the bytes of
\* every element in order, compressed while the compressor is on; the tag
\* turns the compressor on for what follows it and yields no bytes.
RECURSIVE codec_send(_, _)
codec_send(s, tokens) ==
    IF tokens = <<>> THEN Ret(s, <<>>)
    ELSE IF Head(tokens).what = BeginCompressionTag.what
    THEN codec_send([s EXCEPT !.telnet_mccp_codec_.compressing = TRUE], Tail(tokens))
    ELSE LET rest == codec_send(s, Tail(tokens))
             item == IF s.telnet_mccp_codec_.compressing
                     THEN Compressed(Head(tokens))
                     ELSE Plain(Head(tokens))
         IN  Ret(rest.s, <<item>> \o rest.ret)

\* The remote end decodes what reaches it, and turns its decompressor on
\* behind the subnegotiation that announces compression.
RECURSIVE peer_receive(_, _)
peer_receive(s, stream) ==
    IF stream = <<>> THEN s
    ELSE LET got == Decoded(Head(stream), s.peer_decompressing)
         IN  peer_receive([s EXCEPT !.peer_got = Append(@, got),
                                    !.peer_decompressing = @ \/ got.what = CompressionStarts.what],
                          Tail(stream))

\* socket_->write: the bytes are on the wire, and reach the remote end while
\* the transport lives.
socket_write(s, stream) ==
    LET put == [s EXCEPT !.wire = @ \o stream]
    IN  Log(IF s.alive THEN peer_receive(put, stream) ELSE put, "write", "socket_", stream)

\* The codec is passed by: the bytes go to the socket as they are.
impl_write_raw(s, tokens) ==
    IF s.crashed \/ tokens = <<>> THEN s
    ELSE socket_write(s, [i \in 1..Len(tokens) |-> Plain(tokens[i])])

\* connection::impl::write: the tokens pass the codec, and what comes of them
\* goes to socket_ whether or not it is alive, and whether or not it is set;
\* nothing is written if nothing comes of them.
impl_write(s, tokens) ==
    IF s.crashed THEN s
    ELSE LET sent == codec_send(s, tokens)
         IN  IF sent.ret = <<>> THEN sent.s
             ELSE IF sent.s.socket_ = "null"
             THEN LET used == null_socket_use(sent.s)
                  IN  IF used.crashed THEN used
                      ELSE Log(used, "write", "socket_", sent.ret)
             ELSE socket_write(sent.s, sent.ret)

\* The element goes to the socket past the codec.
write_raw(s, what, arg) == impl_write_raw(s, <<Token(what, arg)>>)

\* connection::write, and the writes of one element the connection makes
\* itself: telnet_session_.send of the element, then connection::impl::write.
write(s, what, arg) == impl_write(s, <<Token(what, arg)>>)

\* connection::async_get_terminal_type: the request is queued.
async_get_terminal_type(s, callback) ==
    [s EXCEPT !.terminal_type_requests_ = Append(@, callback)]

\* connection::on_window_size_changed: the single observer is replaced.
set_on_window_size_changed(s, callback) ==
    [s EXCEPT !.on_window_size_changed_ = callback]

\* connection::on_data_read: the single data observer is replaced.
set_on_data_read(s, callback) == [s EXCEPT !.on_data_read_ = callback]

\* connection::impl::schedule_keepalive: a wait of KeepaliveInterval is started.
schedule_keepalive(s) ==
    IF s.crashed THEN s
    ELSE Log([s EXCEPT !.keepalive_scheduled = TRUE, !.timer_fired = "no"],
             "async_wait", "keepalive_timer_", <<KeepaliveInterval>>)

\* connection::impl::on_keepalive: the pending wait has completed.
on_keepalive(s, error) ==
    LET fired == [s EXCEPT !.keepalive_scheduled = FALSE, !.timer_fired = "no"]
    IN  IF error THEN fired
        ELSE LET a == socket_is_alive(fired)
             IN  IF a.s.crashed \/ ~a.ret THEN a.s
                 ELSE schedule_keepalive(write(a.s, "nop", <<>>))

\* connection::impl::schedule_next_read: the read loop of the connection goes
\* on while the socket is alive; the read asks for what socket_->available()
\* reports (s.available: <<n>>, or <<>> if it reports nothing), or for 1.
connection_schedule_next_read(s) ==
    IF s.crashed THEN s
    ELSE LET a == socket_is_alive(s)
             amount == IF s.available # <<>> THEN s.available[1] ELSE 1
         IN  IF a.s.crashed \/ ~a.ret THEN a.s
             ELSE IF a.s.socket_ = "null"
             THEN Log(null_socket_use(a.s), "async_read", "socket_", <<amount>>)
             ELSE Log([a.s EXCEPT !.sock_read = TRUE], "async_read", "socket_", <<amount>>)

\* The socket is closed whether or not it has been released already.
disconnect_unguarded(s) ==
    LET cancelled ==
            Log(IF s.keepalive_scheduled /\ s.timer_fired = "no"
                THEN [s EXCEPT !.timer_fired = "aborted"]
                ELSE s,
                "cancel", "keepalive_timer_", <<>>)
    IN  Log([cancelled EXCEPT !.alive = FALSE, !.socket_ = "null"],
            "close", "socket_", <<>>)

\* connection::disconnect: the keepalive wait is cancelled (a wait that has
\* already expired keeps its queued handler), the socket closed and released.
disconnect(s) ==
    LET cancelled ==
            Log(IF s.keepalive_scheduled /\ s.timer_fired = "no"
                THEN [s EXCEPT !.timer_fired = "aborted"]
                ELSE s,
                "cancel", "keepalive_timer_", <<>>)
    IN  IF cancelled.socket_ # "null"
        THEN Log([cancelled EXCEPT !.alive = FALSE, !.socket_ = "null"],
                 "close", "socket_", <<>>)
        ELSE cancelled

\* telnet_mccp_server_.begin_compression: compression is to start as soon as
\* the option is active; the announcement is sent at once only if it is.
begin_compression(s) ==
    Ret([s EXCEPT !.telnet_mccp_server_.requested = TRUE],
        IF s.telnet_mccp_server_.state = "active"
        THEN <<CompressionStarts, BeginCompressionTag>>
        ELSE <<>>)

\* activate() of one of the five negotiators: the request to the remote, if
\* the option is not active or being negotiated already.
activate(s, option) ==
    IF option = "mccp"
    THEN IF s.telnet_mccp_server_.state = "inactive"
         THEN Ret([s EXCEPT !.telnet_mccp_server_.state = "negotiating"],
                  <<Token("activate", <<option>>)>>)
         ELSE Ret(s, <<>>)
    ELSE IF option = "terminal_type"
    THEN IF s.telnet_terminal_type_client_ = "inactive"
         THEN Ret([s EXCEPT !.telnet_terminal_type_client_ = "negotiating"],
                  <<Token("activate", <<option>>)>>)
         ELSE Ret(s, <<>>)
    ELSE Ret(s, <<Token("activate", <<option>>)>>)

\* The remote answers the compression option: DO makes it active, and an
\* option that becomes active with compression requested announces it and
\* has the codec start; DONT makes it inactive.
mccp_negotiate(s, cmd) ==
    IF cmd = "do"
    THEN IF s.telnet_mccp_server_.state = "negotiating"
         THEN [s EXCEPT !.telnet_mccp_server_.state = "active",
                        !.replies = @ \o (IF s.telnet_mccp_server_.requested
                                          THEN <<CompressionStarts, BeginCompressionTag>>
                                          ELSE <<>>)]
         ELSE s
    ELSE s

\* What the terminal-type negotiator sends: its answer to the remote's
\* announcement, and the request for the type.
AcceptTerminalType == Token("negotiation", <<"do", "terminal_type">>)
RequestTerminalType == Token("request_terminal_type", <<>>)

\* The type is requested whatever state the option is in.
on_state_changed_always(s) ==
    [Log(Log(s, "on_state_changed", s.telnet_terminal_type_client_, <<>>),
         RequestTerminalType.what, "telnet_terminal_type_client_", <<>>)
        EXCEPT !.replies = Append(@, RequestTerminalType)]

\* The handler the constructor connects to
\* telnet_terminal_type_client_.on_state_changed: the type is requested if
\* the option is active.
on_state_changed(s) ==
    LET noted == Log(s, "on_state_changed", s.telnet_terminal_type_client_, <<>>)
    IN  IF noted.telnet_terminal_type_client_ = "active"
        THEN [Log(noted, RequestTerminalType.what, "telnet_terminal_type_client_", <<>>)
                EXCEPT !.replies = Append(@, RequestTerminalType)]
        ELSE noted

\* The remote negotiates the terminal-type option: WILL makes it active (and
\* is answered if it was not asked for), also when it is active already; WONT
\* makes it inactive. Each raises on_state_changed.
terminal_type_negotiate(s, cmd) ==
    IF cmd = "will"
    THEN on_state_changed(
            [s EXCEPT !.telnet_terminal_type_client_ = "active",
                      !.replies = IF s.telnet_terminal_type_client_ = "inactive"
                                  THEN Append(@, AcceptTerminalType)
                                  ELSE @])
    ELSE IF s.telnet_terminal_type_client_ = "inactive"
    THEN s
    ELSE on_state_changed([s EXCEPT !.telnet_terminal_type_client_ = "inactive"])

\* The activations are written with the compression option first.
connection_impl_mccp_first(s) ==
    LET begun == begin_compression(s)
        timed == schedule_keepalive(impl_write(begun.s, begun.ret))
        activated(x, option) == LET a == activate(x, option) IN impl_write(a.s, a.ret)
    IN  activated(activated(activated(activated(activated(timed,
            "mccp"), "echo"), "suppress_ga"), "naws"), "terminal_type")

\* connection::impl::impl: compression is requested, the keepalive started,
\* and the five options are activated.
connection_impl(s) ==
    LET begun == begin_compression(s)
        timed == schedule_keepalive(impl_write(begun.s, begun.ret))
        activated(x, option) == LET a == activate(x, option) IN impl_write(a.s, a.ret)
    IN  activated(activated(activated(activated(activated(timed,
            "echo"), "suppress_ga"), "naws"), "terminal_type"), "mccp")

\* ----------------------------------------------------------- client states

\* main_state::on_repaint
on_repaint(s) ==
    LET painted == write(s, "repaint", s.canvas_)
    IN  [painted EXCEPT !.repaints = @ + 1,
                        !.first_repaint = IF @ = <<>> THEN s.canvas_ ELSE @]

\* The bytes are put in front of the buffer instead of behind it.
on_discarded_data_front(s, data) ==
    [s EXCEPT !.discarded_data_ = data \o @]

\* The callback enter_setup_state installs with setup_state::on_discarded_data.
on_discarded_data_(s, data) ==
    [s EXCEPT !.discarded_data_ = @ \o data]

\* setup_state
setup_state_handle_data(s, data) ==
    Ret([on_discarded_data_(s, data) EXCEPT !.setup_arrived = @ \o data], "setup")

\* The terminal type does not end Setup.
setup_state_terminal_type_stays(s, type) == Ret(s, "setup")

setup_state_terminal_type(s, type) == Ret(s, "main")

setup_state_window_size_changed(s, width, height) ==
    Ret([s EXCEPT !.setup_size = <<width, height>>], "setup")

\* main_state
new_main_state(s) ==
    on_repaint(
        Log([s EXCEPT !.state_ = "main_state",
                      !.canvas_ = <<DefaultWidth, DefaultHeight>>,
                      !.constructed.main_state = @ + 1],
            "new", "main_state", <<>>))

main_state_handle_data(s, data) ==
    Ret(s, IF data = <<>> /\ ~is_alive(s) THEN "dead" ELSE "main")

main_state_terminal_type(s, type) == Ret(s, "main")

\* The canvas keeps the size it had.
main_state_window_size_changed_stale(s, width, height) == Ret(on_repaint(s), "main")

main_state_window_size_changed(s, width, height) ==
    LET sized == IF s.canvas_ # <<width, height>>
                 THEN [s EXCEPT !.canvas_ = <<width, height>>]
                 ELSE s
    IN  Ret(on_repaint(sized), "main")

\* dead_state
\* Payload is buffered as if the client were in Setup again.
dead_state_handle_data_revives(s, data) == Ret(s, "setup")

dead_state_handle_data(s, data) == Ret(s, "dead")

dead_state_terminal_type(s, type) == Ret(s, "dead")

\* The report is still forwarded to the main_state that was left.
dead_state_window_size_changed_repaints(s, width, height) == Ret(on_repaint(s), "dead")

dead_state_window_size_changed(s, width, height) == Ret(s, "dead")

\* state_->handle_data(data), state_->terminal_type(type),
\* state_->window_size_changed(width, height): virtual dispatch on the object
\* state_ points to.
handle_data(s, data) ==
    LET called == Log(s, "handle_data", s.state_, data)
    IN  CASE s.state_ = "setup_state" -> setup_state_handle_data(called, data)
          [] s.state_ = "main_state" -> main_state_handle_data(called, data)
          [] s.state_ = "dead_state" -> dead_state_handle_data(called, data)

terminal_type(s, type) ==
    CASE s.state_ = "setup_state" -> setup_state_terminal_type(s, type)
      [] s.state_ = "main_state" -> main_state_terminal_type(s, type)
      [] s.state_ = "dead_state" -> dead_state_terminal_type(s, type)

window_size_changed(s, width, height) ==
    CASE s.state_ = "setup_state" -> setup_state_window_size_changed(s, width, height)
      [] s.state_ = "main_state" -> main_state_window_size_changed(s, width, height)
      [] s.state_ = "dead_state" -> dead_state_window_size_changed(s, width, height)

\* ------------------------------------------------------ client transitions
\* The first half of client::impl::schedule_next_read: the read is requested.
schedule_next_read(s) == async_read(s)

enter_setup_state(s) ==
    Log([s EXCEPT !.state_ = "setup_state",
                  !.constructed.setup_state = @ + 1],
        "new", "setup_state", <<>>)

\* The state object of the state that was left stays installed.
enter_dead_state_keeps(s) ==
    Log([s EXCEPT !.constructed.dead_state = @ + 1], "new", "dead_state", <<>>)

\* The main_state, if there was one, is destroyed with its canvas.
enter_dead_state(s) ==
    Log([s EXCEPT !.state_ = "dead_state",
                  !.canvas_ = <<>>,
                  !.constructed.dead_state = @ + 1],
        "new", "dead_state", <<>>)

RECURSIVE enter_state(_, _)

enter_main_state(s) ==
    LET made == new_main_state(s)
        discarded_data == made.discarded_data_
        swapped == [made EXCEPT !.discarded_data_ = <<>>,
                                !.replayed = Append(@, discarded_data)]
        handled == handle_data(swapped, discarded_data)
    IN  enter_state(handled.s, handled.ret)

\* An event that leaves the state as it was schedules no read.
enter_state_quiet(s, new_state) ==
    LET old_state == s.connection_state_
        set == [s EXCEPT !.connection_state_ = new_state]
    IN  IF new_state # old_state
        THEN CASE new_state = "setup" -> schedule_next_read(enter_setup_state(set))
               [] new_state = "main" -> schedule_next_read(enter_main_state(set))
               [] new_state = "dead" ->
                    enter_dead_state(
                        [set EXCEPT !.dead_from = old_state,
                                    !.dead_cause = [handler |-> s.handler,
                                                    after |-> s.trace[Len(s.trace)],
                                                    read |-> s.rx]])
               [] OTHER -> schedule_next_read(set)
        ELSE set

\* Setup is set up again whenever an event leaves the client in Setup.
enter_state_resetup(s, new_state) ==
    LET old_state == s.connection_state_
        set == [s EXCEPT !.connection_state_ = new_state]
    IN  IF new_state # old_state \/ new_state = "setup"
        THEN CASE new_state = "setup" -> schedule_next_read(enter_setup_state(set))
               [] new_state = "main" -> schedule_next_read(enter_main_state(set))
               [] new_state = "dead" ->
                    enter_dead_state(
                        [set EXCEPT !.dead_from = old_state,
                                    !.dead_cause = [handler |-> s.handler,
                                                    after |-> s.trace[Len(s.trace)],
                                                    read |-> s.rx]])
               [] OTHER -> schedule_next_read(set)
        ELSE schedule_next_read(set)

enter_state(s, new_state) ==
    LET old_state == s.connection_state_
        set == [s EXCEPT !.connection_state_ = new_state]
    IN  IF new_state # old_state
        THEN CASE new_state = "setup" -> schedule_next_read(enter_setup_state(set))
               [] new_state = "main" -> schedule_next_read(enter_main_state(set))
               [] new_state = "dead" ->
                    enter_dead_state(
                        [set EXCEPT !.dead_from = old_state,
                                    !.dead_cause = [handler |-> s.handler,
                                                    after |-> s.trace[Len(s.trace)],
                                                    read |-> s.rx]])
               [] OTHER -> schedule_next_read(set)
        ELSE schedule_next_read(set)

\* -------------------------------------------------------- client callbacks
\* The continuation given to async_get_terminal_type by client::impl::impl.
client_terminal_type(s, type) ==
    LET fired == [s EXCEPT !.tt_fired = Append(@, type)]
        r == terminal_type(fired, type)
    IN  enter_state(r.s, r.ret)

\* The observer given to on_window_size_changed by client::impl::impl.
client_window_size_changed(s, width, height) ==
    LET noted == [s EXCEPT !.window_width_ = width, !.window_height_ = height]
        r == window_size_changed(noted, width, height)
    IN  enter_state(r.s, r.ret)

\* The data continuation of client::impl::schedule_next_read.
data_continuation(s, data) ==
    LET r == handle_data(s, data)
    IN  enter_state(r.s, r.ret)

\* The liveness test is inverted.
read_complete_continuation_inverted(s) ==
    IF ~is_alive(s)
    THEN schedule_next_read(s)
    ELSE enter_state(s, "dead")

\* The read-complete continuation of client::impl::schedule_next_read.
read_complete_continuation(s) ==
    IF is_alive(s)
    THEN schedule_next_read(s)
    ELSE enter_state(s, "dead")

\* ------------------------------------------------ the accepting component
Range(q) == {q[i] : i \in 1..Len(q)}

\* No callback of the application has run yet.
NoCallback == [callback |-> "none", conn |-> 0, tracked |-> FALSE, sized |-> FALSE]

\* application::impl::impl: nothing is pending.
AppStart ==
    /\ pending_connections_ = <<>>
    /\ pending_sizes_ = <<>>
    /\ accepted = {}
    /\ app_last = NoCallback

\* The two containers of application::impl, as one record.
App == [pending_connections_ |-> pending_connections_, pending_sizes_ |-> pending_sizes_]

\* weak_connection.lock(): the connection still exists while a shared pointer
\* refers to it, and the only ones kept between callbacks are the elements
\* of pending_connections_ and the keys of pending_sizes_.
lock(a, c) == c \in Range(a.pending_connections_) \/ c \in DOMAIN a.pending_sizes_

\* pending_sizes_.erase(connection)
erase(sizes, c) == [k \in DOMAIN sizes \ {c} |-> sizes[k]]

\* pending_sizes_[connection] = std::make_pair(width, height)
assign(sizes, c, width, height) ==
    [k \in DOMAIN sizes \cup {c} |-> IF k = c THEN <<width, height>> ELSE sizes[k]]

\* application::impl::on_accept
on_accept(a, c) == [a EXCEPT !.pending_connections_ = Append(@, c)]

\* The interim size of the connection outlives its negotiation.
on_terminal_type_keeps_size(a, c, type) ==
    IF lock(a, c)
    THEN IF c \notin Range(a.pending_connections_)
         THEN a
         ELSE [a EXCEPT !.pending_connections_ = SelectSeq(@, LAMBDA k : k # c)]
    ELSE a

\* application::impl::on_terminal_type; the socket a connection reads from
\* exists as long as the connection does.
on_terminal_type(a, c, type) ==
    IF lock(a, c)
    THEN IF c \notin Range(a.pending_connections_)
         THEN a
         ELSE [a EXCEPT !.pending_connections_ = SelectSeq(@, LAMBDA k : k # c),
                        !.pending_sizes_ = erase(@, c)]
    ELSE a

\* The interim size of the dead connection is kept.
on_connection_death_keeps_size(a, c) ==
    IF lock(a, c)
    THEN [a EXCEPT !.pending_connections_ = SelectSeq(@, LAMBDA k : k # c)]
    ELSE a

\* application::impl::on_connection_death
on_connection_death(a, c) ==
    IF lock(a, c)
    THEN [a EXCEPT !.pending_connections_ = SelectSeq(@, LAMBDA k : k # c),
                   !.pending_sizes_ = erase(@, c)]
    ELSE a

\* The size is recorded without looking at what lock() returned.
application_on_window_size_changed_unlocked(a, c, width, height) ==
    [a EXCEPT !.pending_sizes_ = assign(@, c, width, height)]

\* application::impl::on_window_size_changed
application_on_window_size_changed(a, c, width, height) ==
    IF lock(a, c)
    THEN [a EXCEPT !.pending_sizes_ = assign(@, c, width, height)]
    ELSE a

\* ------------------------------------------- connection: parsed elements
\* The connection the accepting component made for the socket it accepted.
Owned == 1

\* connection::~connection: the connection is disconnected, and its impl
\* destroyed with it.
connection_destructor(s) ==
    Log(disconnect(s), "~connection", "connection", <<>>)

\* The shared pointer a callback of the application locked goes out of scope:
\* the connection is destroyed if the containers no longer refer to it.
release(s, before) ==
    IF lock(before, Owned) /\ ~lock(s.app, Owned) THEN connection_destructor(s) ELSE s

\* The closure application::impl::on_accept gives async_get_terminal_type.
application_terminal_type(s, type) ==
    release([Log(s, "on_terminal_type", "application", <<type>>)
                EXCEPT !.app = on_terminal_type(@, Owned, type)],
            s.app)

\* The closure application::impl::on_accept gives on_window_size_changed.
application_window_size(s, width, height) ==
    release([Log(s, "on_window_size_changed", "application", <<width, height>>)
                EXCEPT !.app = application_on_window_size_changed(@, Owned, width, height)],
            s.app)

Invoke(s, callback, type) ==
    CASE callback = "client" -> client_terminal_type(s, type)
      [] callback = "application" -> application_terminal_type(s, type)
      [] OTHER -> [s EXCEPT !.tt_calls = Append(@, <<callback, type>>)]

RECURSIVE InvokeAll(_, _, _)
InvokeAll(s, callbacks, type) ==
    IF callbacks = <<>> THEN s
    ELSE InvokeAll(Invoke(s, Head(callbacks), type), Tail(callbacks), type)

\* The requests stay queued after they have been served.
announce_terminal_type_keeps(s) ==
    InvokeAll(s, s.terminal_type_requests_, s.terminal_type_)

\* connection::impl::announce_terminal_type
announce_terminal_type(s) ==
    [InvokeAll(s, s.terminal_type_requests_, s.terminal_type_)
        EXCEPT !.terminal_type_requests_ = <<>>]

\* connection::impl::on_terminal_type_detected
on_terminal_type_detected(s, type) ==
    announce_terminal_type([s EXCEPT !.terminal_type_ = type])

\* A size equal to the one notified last is not notified again.
on_window_size_changed_once(s, width, height) ==
    CASE s.on_window_size_changed_ = "none" -> s
      [] s.on_window_size_changed_ = "client" -> client_window_size_changed(s, width, height)
      [] s.on_window_size_changed_ = "application" -> application_window_size(s, width, height)
      [] OTHER ->
            IF s.notified # <<>> /\ s.notified[Len(s.notified)][2] = <<width, height>>
            THEN s
            ELSE [s EXCEPT !.notified =
                        Append(@, <<s.on_window_size_changed_, <<width, height>> >>)]

\* connection::impl::on_window_size_changed: the observer, if there is one,
\* is called with the size.
on_window_size_changed(s, width, height) ==
    CASE s.on_window_size_changed_ = "none" -> s
      [] s.on_window_size_changed_ = "client" -> client_window_size_changed(s, width, height)
      [] s.on_window_size_changed_ = "application" -> application_window_size(s, width, height)
      [] OTHER ->
            [s EXCEPT !.notified =
                Append(@, <<s.on_window_size_changed_, <<width, height>> >>)]

\* connection::async_read: a payload chunk extracted from the read goes to the
\* data continuation of that read.
deliver_payload(s, data) == data_continuation(s, data)

\* One element of a received buffer reaches its callback.
Dispatch(s, e) ==
    CASE e.k = "text" -> deliver_payload(Begin(s, "handle_data"), e.data)
      [] e.k = "ttype" -> on_terminal_type_detected(Begin(s, "terminal_type"), e.type)
      [] e.k = "naws" ->
            on_window_size_changed(Begin(s, "window_size_changed"), e.size[1], e.size[2])

\* ----------------------------------------------------- the executor threads
Idle == [kind |-> "idle", conn |-> 0, calls |-> "none"]

\* main: `concurrency' threads call io_service.run(); nothing is queued yet.
PoolStart(n) ==
    /\ concurrency = n
    /\ running = [th \in Threads |-> Idle]
    /\ ready = {}
    /\ waits = {}

\* --------------------------------------------------------------- construction
\* A connection right after its constructor: nothing requested, the
\* keepalive scheduled, the transport alive; the client not yet built.
Fresh ==
    [connection_state_ |-> "init", state_ |-> "null",
     window_width_ |-> DefaultWidth, window_height_ |-> DefaultHeight,
     discarded_data_ |-> <<>>, canvas_ |-> <<>>,
     terminal_type_ |-> "", terminal_type_requests_ |-> <<>>,
     on_window_size_changed_ |-> "none",
     keepalive_scheduled |-> TRUE,
     alive |-> TRUE, reads |-> 0, rx |-> <<>>,
     trace |-> <<Call("event", "impl", <<>>), Call("from", "init", <<>>)>>,
     handler |-> "impl", replies |-> <<>>, available |-> <<>>,
     app |-> [pending_connections_ |-> <<>>, pending_sizes_ |-> <<>>],
     constructed |-> [setup_state |-> 0, main_state |-> 0, dead_state |-> 0],
     setup_arrived |-> <<>>, replayed |-> <<>>,
     setup_size |-> <<DefaultWidth, DefaultHeight>>,
     repaints |-> 0, first_repaint |-> <<>>,
     tt_fired |-> <<>>, dead_from |-> "none",
     dead_cause |-> [handler |-> "none", after |-> Call("none", "none", <<>>),
                     read |-> <<>>],
     socket_ |-> "set", on_data_read_ |-> "none", timer_fired |-> "no",
     sock_read |-> FALSE, crashed |-> FALSE, oracle |-> "fault",
     tt_calls |-> <<>>, reports |-> <<>>, reg_at |-> [id \in RequestIds |-> -1],
     payload_received |-> <<>>, data_delivered |-> <<>>,
     telnet_mccp_server_ |-> [state |-> "negotiating", requested |-> TRUE],
     telnet_mccp_codec_ |-> [compressing |-> FALSE],
     telnet_terminal_type_client_ |-> "negotiating",
     unparsed_buffer_ |-> <<>>, wire |-> <<>>,
     peer_decompressing |-> FALSE, peer_got |-> <<>>,
     notified |-> <<>>, naws_updates |-> <<>>, stream_in |-> <<>>]

\* client::impl::impl
impl(s) ==
    enter_state(
        set_on_window_size_changed(async_get_terminal_type(s, "client"), "client"),
        "setup")

Constructed == impl(Fresh)

Init ==
    /\ connection_state_ = Constructed.connection_state_
    /\ state_ = Constructed.state_
    /\ window_width_ = Constructed.window_width_
    /\ window_height_ = Constructed.window_height_
    /\ discarded_data_ = Constructed.discarded_data_
    /\ canvas_ = Constructed.canvas_
    /\ terminal_type_ = Constructed.terminal_type_
    /\ terminal_type_requests_ = Constructed.terminal_type_requests_
    /\ on_window_size_changed_ = Constructed.on_window_size_changed_
    /\ keepalive_scheduled = Constructed.keepalive_scheduled
    /\ alive = Constructed.alive
    /\ reads = Constructed.reads
    /\ trace = Constructed.trace
    /\ constructed = Constructed.constructed
    /\ setup_arrived = Constructed.setup_arrived
    /\ replayed = Constructed.replayed
    /\ setup_size = Constructed.setup_size
    /\ repaints = Constructed.repaints
    /\ first_repaint = Constructed.first_repaint
    /\ tt_fired = Constructed.tt_fired
    /\ dead_from = Constructed.dead_from
    /\ dead_cause = Constructed.dead_cause
    /\ socket_ = Constructed.socket_
    /\ on_data_read_ = Constructed.on_data_read_
    /\ timer_fired = Constructed.timer_fired
    /\ sock_read = Constructed.sock_read
    /\ crashed = Constructed.crashed
    /\ tt_calls = Constructed.tt_calls
    /\ reports = Constructed.reports
    /\ reg_at = Constructed.reg_at
    /\ payload_received = Constructed.payload_received
    /\ data_delivered = Constructed.data_delivered
    /\ telnet_mccp_server_ = Constructed.telnet_mccp_server_
    /\ telnet_mccp_codec_ = Constructed.telnet_mccp_codec_
    /\ telnet_terminal_type_client_ = Constructed.telnet_terminal_type_client_
    /\ unparsed_buffer_ = Constructed.unparsed_buffer_
    /\ wire = Constructed.wire
    /\ peer_decompressing = Constructed.peer_decompressing
    /\ peer_got = Constructed.peer_got
    /\ notified = Constructed.notified
    /\ naws_updates = Constructed.naws_updates
    /\ stream_in = Constructed.stream_in
    /\ rx_active = FALSE
    /\ rx = <<>>
    /\ rx_pos = 0
    /\ rx_state0 = "init"
    /\ events = 0
    /\ AppStart
    /\ PoolStart(1)

\* ------------------------------------------------------------------ actions
\* The remote end goes away, at any moment between two callbacks.
SocketDies ==
    /\ alive
    /\ alive' = FALSE
    /\ UNCHANGED <<connection_state_, state_, window_width_, window_height_,
                   discarded_data_, canvas_, terminal_type_, terminal_type_requests_,
                   on_window_size_changed_, keepalive_scheduled, reads, rx_active, rx,
                   rx_pos, rx_state0, events, trace, constructed, setup_arrived, replayed,
                   setup_size, repaints, first_repaint, tt_fired, dead_from, dead_cause,
                   connVars, appVars, poolVars>>

\* What a transport read can return: nothing once the transport is dead,
\* otherwise the elements of the bytes that arrived (none for traffic the
\* negotiators consume).
Buffers ==
    IF alive THEN SeqsUpTo(Elements, Min(MaxBuf, MaxEvents - events)) ELSE {<<>>}

\* The transport completes one of the outstanding reads; callbacks of one
\* connection never overlap, so no other read is being dispatched.
TransportRead ==
    /\ reads > 0
    /\ ~rx_active
    /\ \E buffer \in Buffers :
        /\ rx' = buffer
        /\ events' = events + Len(buffer)
    /\ reads' = reads - 1
    /\ rx_active' = TRUE
    /\ rx_pos' = 0
    /\ rx_state0' = connection_state_
    /\ UNCHANGED <<connection_state_, state_, window_width_, window_height_,
                   discarded_data_, canvas_, terminal_type_, terminal_type_requests_,
                   on_window_size_changed_, keepalive_scheduled, alive, trace,
                   constructed, setup_arrived, replayed, setup_size, repaints,
                   first_repaint, tt_fired, dead_from, dead_cause, connVars,
                   appVars, poolVars>>

\* The next element of the buffer is routed, in stream order.
DispatchElement ==
    /\ rx_active
    /\ rx_pos < Len(rx)
    /\ Becomes(Dispatch(Cur, rx[rx_pos + 1]))
    /\ rx_pos' = rx_pos + 1
    /\ UNCHANGED <<rx_active, rx, rx_state0, events, appVars, poolVars>>

\* The read is completed before its elements have all been delivered.
ReadCompleteEarly ==
    /\ rx_active
    /\ Becomes(read_complete_continuation(Begin(Cur, "read_complete")))
    /\ rx_active' = FALSE
    /\ UNCHANGED <<rx, rx_pos, rx_state0, events, appVars, poolVars>>

\* Every element has been delivered: read_complete_continuation, once.
ReadComplete ==
    /\ rx_active
    /\ rx_pos = Len(rx)
    /\ Becomes(read_complete_continuation(Begin(Cur, "read_complete")))
    /\ rx_active' = FALSE
    /\ UNCHANGED <<rx, rx_pos, rx_state0, events, appVars, poolVars>>

\* The keepalive timer expires; nothing in the client cancels it, so the wait
\* completes without error.
Keepalive ==
    /\ keepalive_scheduled
    /\ Becomes(on_keepalive(Begin(Cur, "keepalive"), FALSE))
    /\ UNCHANGED <<rx_active, rx, rx_pos, rx_state0, events, appVars, poolVars>>

Next ==
    \/ SocketDies
    \/ TransportRead
    \/ DispatchElement
    \/ ReadComplete
    \/ Keepalive

Spec == Init /\ [][Next]_vars

\* ------------------------------------- the connection of connection.cpp
\* connection::impl::on_text: payload goes to the data observer, if there is one.
on_text(s, text) ==
    IF s.on_data_read_ # "none"
    THEN Log([s EXCEPT !.data_delivered = @ \o text], "on_data_read", s.on_data_read_, text)
    ELSE s

\* telnet_session_.receive(data) with the callbacks the constructor installed:
\* every element of the buffer is routed, in stream order.
RECURSIVE receive(_, _)
receive(s, elements) ==
    IF elements = <<>> THEN s
    ELSE LET e == Head(elements)
             routed ==
                CASE e.k = "text" ->
                        on_text([s EXCEPT !.payload_received = @ \o e.data], e.data)
                  [] e.k = "ttype" ->
                        on_terminal_type_detected(
                            [s EXCEPT !.reports = Append(@, e.type)], e.type)
                  [] e.k = "naws" ->
                        on_window_size_changed(
                            [s EXCEPT !.naws_updates =
                                Append(@, <<s.on_window_size_changed_, e.size>>)],
                            e.size[1], e.size[2])
                  [] e.k = "mccp" -> mccp_negotiate(s, e.type)
                  [] e.k = "ttopt" -> terminal_type_negotiate(s, e.type)
                  [] e.k \in {"command", "negotiation"} -> s
         IN  receive(routed, Tail(elements))

\* The next read is scheduled before the replies are written.
on_data_reads_first(s, data) ==
    LET received == receive([s EXCEPT !.replies = <<>>], data)
    IN  impl_write(connection_schedule_next_read(received), received.replies)

\* connection::impl::on_data: the buffer is parsed and routed, what the
\* negotiators reply is written, then the next read is scheduled.
on_data(s, data) ==
    LET received == receive([s EXCEPT !.replies = <<>>], data)
    IN  connection_schedule_next_read(impl_write(received, received.replies))

\* connection::start
start(s) == connection_schedule_next_read(s)

\* A handler of the connection starts: it is named at the head of the trace,
\* with the socket_ it found.
Enter(s, handler, outcome) ==
    [s EXCEPT !.handler = handler,
              !.oracle = outcome,
              !.trace = <<Call("event", handler, <<>>), Call("from", s.socket_, <<>>)>>]

\* The variables are those of the record.
Holds(s) ==
    /\ connection_state_ = s.connection_state_
    /\ state_ = s.state_
    /\ window_width_ = s.window_width_
    /\ window_height_ = s.window_height_
    /\ discarded_data_ = s.discarded_data_
    /\ canvas_ = s.canvas_
    /\ terminal_type_ = s.terminal_type_
    /\ terminal_type_requests_ = s.terminal_type_requests_
    /\ on_window_size_changed_ = s.on_window_size_changed_
    /\ keepalive_scheduled = s.keepalive_scheduled
    /\ alive = s.alive
    /\ reads = s.reads
    /\ trace = s.trace
    /\ constructed = s.constructed
    /\ setup_arrived = s.setup_arrived
    /\ replayed = s.replayed
    /\ setup_size = s.setup_size
    /\ repaints = s.repaints
    /\ first_repaint = s.first_repaint
    /\ tt_fired = s.tt_fired
    /\ dead_from = s.dead_from
    /\ dead_cause = s.dead_cause
    /\ socket_ = s.socket_
    /\ on_data_read_ = s.on_data_read_
    /\ timer_fired = s.timer_fired
    /\ sock_read = s.sock_read
    /\ crashed = s.crashed
    /\ tt_calls = s.tt_calls
    /\ reports = s.reports
    /\ reg_at = s.reg_at
    /\ payload_received = s.payload_received
    /\ data_delivered = s.data_delivered
    /\ telnet_mccp_server_ = s.telnet_mccp_server_
    /\ telnet_mccp_codec_ = s.telnet_mccp_codec_
    /\ telnet_terminal_type_client_ = s.telnet_terminal_type_client_
    /\ unparsed_buffer_ = s.unparsed_buffer_
    /\ wire = s.wire
    /\ peer_decompressing = s.peer_decompressing
    /\ peer_got = s.peer_got
    /\ notified = s.notified
    /\ naws_updates = s.naws_updates
    /\ stream_in = s.stream_in

\* A connection an application has constructed and started.
ConnInit ==
    /\ Holds(start(Fresh))
    /\ rx_active = FALSE
    /\ rx = <<>>
    /\ rx_pos = 0
    /\ rx_state0 = "init"
    /\ events = 0
    /\ AppStart
    /\ PoolStart(1)

\* The application asks for the terminal type, with a continuation it has
\* not used before.
GetTerminalType ==
    /\ ~crashed
    /\ \E id \in RequestIds :
        /\ reg_at[id] = -1
        /\ Becomes([async_get_terminal_type(Enter(Cur, "async_get_terminal_type", "fault"), id)
                        EXCEPT !.reg_at[id] = Len(reports)])
    /\ UNCHANGED <<rx_active, rx, rx_pos, rx_state0, events, appVars, poolVars>>

\* The application registers its data observer.
SetOnDataRead ==
    /\ ~crashed
    /\ on_data_read_ = "none"
    /\ Becomes(set_on_data_read(Enter(Cur, "on_data_read", "fault"), "application"))
    /\ UNCHANGED <<rx_active, rx, rx_pos, rx_state0, events, appVars, poolVars>>

\* What the remote sends to a connection under test.
ConnElements ==
    {Text(<<1>>)} \cup {TType(t) : t \in TerminalTypes}

\* The socket completes the pending read: its handler is queued with the
\* bytes that arrived, none once the socket is dead or closed.
Reads(elements, most) ==
    /\ ~crashed
    /\ sock_read
    /\ \E buffer \in (IF alive
                       THEN SeqsUpTo(elements, Min(MaxRead, most - events))
                       ELSE {<<>>}) :
        /\ rx' = buffer
        /\ events' = events + Len(buffer)
    /\ sock_read' = FALSE
    /\ rx_active' = TRUE
    /\ UNCHANGED <<connection_state_, state_, window_width_, window_height_,
                   discarded_data_, canvas_, terminal_type_, terminal_type_requests_,
                   on_window_size_changed_, keepalive_scheduled, alive, reads,
                   rx_pos, rx_state0, trace, constructed, setup_arrived, replayed,
                   setup_size, repaints, first_repaint, tt_fired, dead_from, dead_cause,
                   socket_, on_data_read_, timer_fired, crashed,
                   tt_calls, reports, reg_at, payload_received, data_delivered,
                   wireVars, appVars, poolVars>>

SocketRead == Reads(ConnElements, MaxReceived)

\* The queued read handler runs.
OnData ==
    /\ ~crashed
    /\ rx_active
    /\ \E outcome \in (IF socket_ = "null" THEN Outcomes ELSE {"fault"}) :
        Becomes(on_data(Enter(Cur, "on_data", outcome), rx))
    /\ rx_active' = FALSE
    /\ UNCHANGED <<rx, rx_pos, rx_state0, events, appVars, poolVars>>

\* The keepalive wait expires: its handler is queued, without error.
TimerExpires ==
    /\ ~crashed
    /\ keepalive_scheduled
    /\ timer_fired = "no"
    /\ timer_fired' = "ok"
    /\ UNCHANGED <<connection_state_, state_, window_width_, window_height_,
                   discarded_data_, canvas_, terminal_type_, terminal_type_requests_,
                   on_window_size_changed_, keepalive_scheduled, alive, reads,
                   rx_active, rx, rx_pos, rx_state0, events,
                   trace, constructed, setup_arrived, replayed,
                   setup_size, repaints, first_repaint, tt_fired, dead_from, dead_cause,
                   socket_, on_data_read_, sock_read, crashed,
                   tt_calls, reports, reg_at, payload_received, data_delivered,
                   wireVars, appVars, poolVars>>

\* The queued keepalive handler runs, with the error its wait ended with; the
\* trace notes that error and the liveness of the transport at that moment.
OnKeepalive ==
    /\ ~crashed
    /\ keepalive_scheduled
    /\ timer_fired # "no"
    /\ \E outcome \in (IF socket_ = "null" THEN Outcomes ELSE {"fault"}) :
        Becomes(on_keepalive(Log(Log(Enter(Cur, "on_keepalive", outcome),
                                     "error", timer_fired, <<>>),
                                 "transport", IF alive THEN "alive" ELSE "not_alive", <<>>),
                             timer_fired = "aborted"))
    /\ UNCHANGED <<rx_active, rx, rx_pos, rx_state0, events, appVars, poolVars>>

\* The owner disconnects the connection, or destroys it.
Disconnect ==
    /\ ~crashed
    /\ Becomes(disconnect(Enter(Cur, "disconnect", "fault")))
    /\ UNCHANGED <<rx_active, rx, rx_pos, rx_state0, events, appVars, poolVars>>

\* Payloads an application writes.
Payloads == {<<1>>, <<2>>}

\* The application writes payload; the trace notes it.
Write ==
    /\ ~crashed
    /\ \E data \in Payloads, outcome \in (IF socket_ = "null" THEN Outcomes ELSE {"fault"}) :
        Becomes(write(Log(Enter(Cur, "write", outcome), "payload", "application", data),
                      "text", data))
    /\ UNCHANGED <<rx_active, rx, rx_pos, rx_state0, events, appVars, poolVars>>

ConnNext ==
    \/ GetTerminalType
    \/ SetOnDataRead
    \/ SocketDies
    \/ SocketRead
    \/ OnData
    \/ TimerExpires
    \/ OnKeepalive
    \/ Disconnect

ConnSpec == ConnInit /\ [][ConnNext]_vars

\* The life of a connection that is read, written to, kept alive and
\* disconnected at any moment.
LifeNext ==
    \/ Write
    \/ SocketDies
    \/ SocketRead
    \/ OnData
    \/ TimerExpires
    \/ OnKeepalive
    \/ Disconnect

LifeSpec == ConnInit /\ [][LifeNext]_vars

\* ------------------------- the connection's negotiation and what it writes
\* The members of connection::impl before the body of its constructor.
Unbuilt ==
    [Fresh EXCEPT !.keepalive_scheduled = FALSE,
                  !.telnet_mccp_server_ = [state |-> "inactive", requested |-> FALSE],
                  !.telnet_terminal_type_client_ = "inactive"]

\* A connection an application has constructed and started.
WireInit ==
    /\ Holds(start(connection_impl(Unbuilt)))
    /\ rx_active = FALSE
    /\ rx = <<>>
    /\ rx_pos = 0
    /\ rx_state0 = "init"
    /\ events = 0
    /\ AppStart
    /\ PoolStart(1)

\* Window-size observers of an application.
Observers == {"first_observer", "second_observer"}

\* The application installs a window-size observer; the trace notes which.
SetOnWindowSizeChanged ==
    /\ ~crashed
    /\ \E observer \in Observers \ {on_window_size_changed_} :
        Becomes(set_on_window_size_changed(
                    Log(Enter(Cur, "on_window_size_changed", "fault"),
                        "observer", observer, <<>>),
                    observer))
    /\ UNCHANGED <<rx_active, rx, rx_pos, rx_state0, events, appVars, poolVars>>

\* What the remote sends while the options are negotiated.
WireElements == {Naws(z) : z \in WindowSizes} \cup {Mccp("do")}

WireRead == Reads(WireElements, MaxWire)

WireNext ==
    \/ SetOnWindowSizeChanged
    \/ Write
    \/ SocketDies
    \/ WireRead
    \/ OnData
    \/ TimerExpires
    \/ OnKeepalive

WireSpec == WireInit /\ [][WireNext]_vars

\* ------------------------------------------- what the read loop asks for
\* What socket_->available() can answer: nothing, or a number of bytes, which
\* is zero only once the socket is dead; anything through a null socket_.
Availables ==
    IF socket_ = "null" THEN {<<>>} \cup {<<n>> : n \in 0..MaxRead}
    ELSE IF alive THEN {<<>>} \cup {<<n>> : n \in 1..MaxRead}
    ELSE {<<>>, <<0>>}

\* The queued read handler runs, and socket_->available() answers.
OnReadable ==
    /\ ~crashed
    /\ rx_active
    /\ \E outcome \in (IF socket_ = "null" THEN Outcomes ELSE {"fault"}),
          available \in Availables :
        Becomes(on_data([Enter(Cur, "on_data", outcome) EXCEPT !.available = available],
                        rx))
    /\ rx_active' = FALSE
    /\ UNCHANGED <<rx, rx_pos, rx_state0, events, appVars, poolVars>>

ReadNext ==
    \/ SocketDies
    \/ SocketRead
    \/ OnReadable
    \/ Disconnect

ReadSpec == ConnInit /\ [][ReadNext]_vars

\* ------------------------------ the connection the application owns
\* application::impl::on_accept: the connection is constructed and put in
\* pending_connections_, given the application's closures, and started.
Accepted ==
    LET made == [connection_impl(Unbuilt)
                    EXCEPT !.app = on_accept(@, Owned)]
    IN  start(async_get_terminal_type(
                set_on_window_size_changed(made, "application"), "application"))

OwnInit ==
    /\ Holds(Accepted)
    /\ pending_connections_ = Accepted.app.pending_connections_
    /\ pending_sizes_ = Accepted.app.pending_sizes_
    /\ accepted = {Owned}
    /\ app_last = NoCallback
    /\ rx_active = FALSE
    /\ rx = <<>>
    /\ rx_pos = 0
    /\ rx_state0 = "init"
    /\ events = 0
    /\ PoolStart(1)

\* What the remote sends while the application waits for the terminal type.
OwnElements ==
    {Text(<<1>>)} \cup {TType(t) : t \in TerminalTypes} \cup {Naws(z) : z \in WindowSizes}

OwnRead == Reads(OwnElements, MaxReceived)

\* The queued read handler runs; the callbacks it reaches are the
\* application's, and change its containers.
OnOwnedData ==
    /\ ~crashed
    /\ rx_active
    /\ \E outcome \in Outcomes :
        LET handled == on_data(Enter(Cur, "on_data", outcome), rx)
        IN  /\ Becomes(handled)
            /\ pending_connections_' = handled.app.pending_connections_
            /\ pending_sizes_' = handled.app.pending_sizes_
    /\ rx_active' = FALSE
    /\ UNCHANGED <<rx, rx_pos, rx_state0, events, accepted, app_last, poolVars>>

OwnNext ==
    \/ SocketDies
    \/ OwnRead
    \/ OnOwnedData
    \/ TimerExpires
    \/ OnKeepalive

OwnSpec == OwnInit /\ [][OwnNext]_vars

\* The remote negotiates the options that answer: compression, and the
\* terminal type, announced, announced again and withdrawn.
NegElements == {Mccp("do")} \cup {TerminalTypeOption(cmd) : cmd \in {"will", "wont"}}

NegRead == Reads(NegElements, MaxWire)

NegNext ==
    \/ SocketDies
    \/ NegRead
    \/ OnData

NegSpec == WireInit /\ [][NegNext]_vars

\* --------------------------------------- the bytes the connection reads
\* The bytes that matter to the parser: a payload byte (also the number of an
\* option), the escape, and a negotiation command.
IAC == 255
DO == 253
Bytes == {1, IAC, DO}

\* The session's parser: the elements of the complete sequences at the front
\* of the bytes, and the bytes of the incomplete sequence behind them. An
\* undoubled escape starts a command of two bytes or a negotiation of three;
\* a doubled escape is the payload byte 255; any other byte is payload.
RECURSIVE parse(_)
parse(bytes) ==
    IF bytes = <<>> THEN [elements |-> <<>>, rest |-> <<>>]
    ELSE IF Head(bytes) # IAC
    THEN LET p == parse(Tail(bytes))
         IN  [p EXCEPT !.elements = <<Text(<<Head(bytes)>>)>> \o @]
    ELSE IF Len(bytes) = 1 THEN [elements |-> <<>>, rest |-> bytes]
    ELSE IF bytes[2] = IAC
    THEN LET p == parse(SubSeq(bytes, 3, Len(bytes)))
         IN  [p EXCEPT !.elements = <<Text(<<IAC>>)>> \o @]
    ELSE IF bytes[2] = DO
    THEN IF Len(bytes) = 2 THEN [elements |-> <<>>, rest |-> bytes]
         ELSE LET p == parse(SubSeq(bytes, 4, Len(bytes)))
              IN  [p EXCEPT !.elements = <<Negotiation(DO, bytes[3])>> \o @]
    ELSE LET p == parse(SubSeq(bytes, 3, Len(bytes)))
         IN  [p EXCEPT !.elements = <<Command(bytes[2])>> \o @]

\* The bytes of a sequence a read left incomplete are forgotten.
on_data_forgetful(s, bytes) ==
    on_data([s EXCEPT !.stream_in = @ \o bytes, !.unparsed_buffer_ = <<>>],
            parse(bytes).elements)

\* connection::impl::on_data for a buffer of bytes: telnet_session_.receive
\* parses them behind the bytes it held back.
on_data_bytes(s, bytes) ==
    LET parsed == parse(s.unparsed_buffer_ \o bytes)
    IN  on_data([s EXCEPT !.stream_in = @ \o bytes, !.unparsed_buffer_ = parsed.rest],
                parsed.elements)

\* A connection an application has constructed, given its data observer and
\* started.
SplitInit ==
    /\ Holds(start(set_on_data_read(connection_impl(Unbuilt), "application")))
    /\ rx_active = FALSE
    /\ rx = <<>>
    /\ rx_pos = 0
    /\ rx_state0 = "init"
    /\ events = 0
    /\ AppStart
    /\ PoolStart(1)

\* The socket completes the pending read with the bytes that have arrived,
\* wherever in the stream that is.
SplitRead == Reads(Bytes, MaxStream)

\* The queued read handler runs.
OnBytes ==
    /\ ~crashed
    /\ rx_active
    /\ Becomes(on_data_bytes(Enter(Cur, "on_data", "fault"), rx))
    /\ rx_active' = FALSE
    /\ UNCHANGED <<rx, rx_pos, rx_state0, events, appVars, poolVars>>

SplitNext ==
    \/ SocketDies
    \/ SplitRead
    \/ OnBytes

SplitSpec == SplitInit /\ [][SplitNext]_vars

\* -------------------------------------------- the application's callbacks
\* The session fields stay as constructed while the application is looked at
\* on its own.
SessionIdle ==
    /\ Holds(Fresh)
    /\ rx_active = FALSE
    /\ rx = <<>>
    /\ rx_pos = 0
    /\ rx_state0 = "init"
    /\ events = 0

AppInit == SessionIdle /\ AppStart /\ PoolStart(1)

\* What the callback about to run finds.
Found(callback, c) ==
    [callback |-> callback, conn |-> c,
     tracked |-> c \in Range(pending_connections_),
     sized |-> c \in DOMAIN pending_sizes_]

Settles(a) ==
    /\ pending_connections_' = a.pending_connections_
    /\ pending_sizes_' = a.pending_sizes_

\* The server accepts a socket and calls on_accept.
Accept ==
    \E c \in Conns \ accepted :
        /\ Settles(on_accept(App, c))
        /\ accepted' = accepted \cup {c}
        /\ app_last' = Found("on_accept", c)
        /\ UNCHANGED <<sessionVars, poolVars>>

\* A connection, or what is left of one, reports a window size.
WindowSizeReport ==
    \E c \in accepted, size \in WindowSizes :
        /\ Settles(application_on_window_size_changed(App, c, size[1], size[2]))
        /\ app_last' = Found("on_window_size_changed", c)
        /\ UNCHANGED <<accepted, sessionVars, poolVars>>

\* A connection, or what is left of one, reports a terminal type.
TerminalTypeReport ==
    \E c \in accepted, type \in TerminalTypes :
        /\ Settles(on_terminal_type(App, c, type))
        /\ app_last' = Found("on_terminal_type", c)
        /\ UNCHANGED <<accepted, sessionVars, poolVars>>

\* The socket of a connection reports its death.
ConnectionDeath ==
    \E c \in accepted :
        /\ Settles(on_connection_death(App, c))
        /\ app_last' = Found("on_connection_death", c)
        /\ UNCHANGED <<accepted, sessionVars, poolVars>>

AppNext ==
    \/ Accept
    \/ WindowSizeReport
    \/ TerminalTypeReport
    \/ ConnectionDeath

AppSpec == AppInit /\ [][AppNext]_vars

\* ------------------------------------------------ handlers on the threads
PoolInit == SessionIdle /\ AppStart /\ \E n \in Threads : PoolStart(n)

Handler(kind, c, calls) == [kind |-> kind, conn |-> c, calls |-> calls]
Wait(kind, c) == [kind |-> kind, conn |-> c]

\* The callbacks of the application a handler can call into: on_data reaches
\* on_window_size_changed or on_terminal_type when the buffer carries such a
\* report, the death of a socket reaches on_connection_death.
Reaches(kind) ==
    CASE kind = "on_data" -> {"none", "on_window_size_changed", "on_terminal_type"}
      [] kind = "on_socket_death" -> {"on_connection_death"}
      [] kind = "on_keepalive" -> {"none"}

\* The server accepts a socket: the accept handler is queued. The server
\* accepts the next socket once that handler has returned.
SocketAccepted ==
    \E c \in Conns \ accepted :
        /\ \A h \in ready \cup Range(running) : h.kind # "on_accept"
        /\ accepted' = accepted \cup {c}
        /\ ready' = ready \cup {Handler("on_accept", c, "on_accept")}
        /\ UNCHANGED <<sessionVars, pending_connections_, pending_sizes_, app_last,
                       concurrency, running, waits>>

\* An asynchronous operation completes: its handler is queued as it was
\* given, on the io_service itself.
Completes ==
    \E w \in waits :
        \E calls \in Reaches(w.kind) :
            /\ waits' = waits \ {w}
            /\ ready' = ready \cup {Handler(w.kind, w.conn, calls)}
            /\ UNCHANGED <<sessionVars, appVars, concurrency, running>>

\* A thread inside io_service.run() takes a queued handler.
Runs ==
    \E th \in 1..concurrency, h \in ready :
        /\ running[th] = Idle
        /\ running' = [running EXCEPT ![th] = h]
        /\ ready' = ready \ {h}
        /\ UNCHANGED <<sessionVars, appVars, concurrency, waits>>

\* The operations a handler has started by the time it returns: on_accept
\* starts the connection (a read, the keepalive wait, the death observer),
\* on_data the next read, on_keepalive the next wait.
Started(h) ==
    CASE h.kind = "on_accept" ->
            {Wait("on_data", h.conn), Wait("on_keepalive", h.conn),
             Wait("on_socket_death", h.conn)}
      [] h.kind = "on_data" -> {Wait("on_data", h.conn)}
      [] h.kind = "on_keepalive" -> {Wait("on_keepalive", h.conn)}
      [] h.kind = "on_socket_death" -> {}

\* The handler a thread is executing returns.
Returns ==
    \E th \in 1..concurrency :
        /\ running[th] # Idle
        /\ running' = [running EXCEPT ![th] = Idle]
        /\ waits' = waits \cup Started(running[th])
        /\ UNCHANGED <<sessionVars, appVars, concurrency, ready>>

PoolNext ==
    \/ SocketAccepted
    \/ Completes
    \/ Runs
    \/ Returns

PoolSpec == PoolInit /\ [][PoolNext]_vars

\* Two threads are executing handlers at the same time.
Overlap(t1, t2) == t1 # t2 /\ running[t1] # Idle /\ running[t2] # Idle

\* ------------------------------------------------------------ observations
\* The payload of a sequence of elements, concatenated.
RECURSIVE PayloadOf(_)
PayloadOf(elements) ==
    IF elements = <<>> THEN <<>>
    ELSE (IF Head(elements).k = "text" THEN Head(elements).data ELSE <<>>)
            \o PayloadOf(Tail(elements))

\* The handler that ran last, and the state it found.
LastHandler == trace[1].who
LastFrom == trace[2].who
ClientHandlers == {"handle_data", "terminal_type", "window_size_changed", "read_complete"}
Made(op) == \E i \in 1..Len(trace) : trace[i].op = op

\* The handler that ran last constructed the main_state.
EnteredMain == \E i \in 1..Len(trace) : trace[i] = Call("new", "main_state", <<>>)

Rank(st) ==
    CASE st = "init" -> 0
      [] st = "setup" -> 1
      [] st = "main" -> 2
      [] st = "dead" -> 3

IsSuffix(a, b) == Len(a) <= Len(b) /\ SubSeq(b, Len(b) - Len(a) + 1, Len(b)) = a

\* Reads the client has requested whose read-complete continuation has not run.
Outstanding == reads + (IF rx_active THEN 1 ELSE 0)

\* The dispatched part of the buffer holds payload.
DeliveredPayload(n) == \E i \in 1..n : rx[i].k = "text" /\ rx[i].data # <<>>

\* The element dispatched last is payload that follows a terminal-type report
\* in a buffer received in Setup; i is the index of that report.
TypeThenPayload(i) ==
    /\ rx_active
    /\ rx_state0 = "setup"
    /\ LastHandler = "handle_data"
    /\ i < rx_pos
    /\ rx[i].k = "ttype"
    /\ \A h \in 1..(i - 1) : rx[h].k # "ttype"
    /\ rx[rx_pos].k = "text"
    /\ rx[rx_pos].data # <<>>

\* The values a terminal-type continuation has been invoked with, in order.
RECURSIVE CallsOf(_, _)
CallsOf(id, calls) ==
    IF calls = <<>> THEN <<>>
    ELSE IF Head(calls)[1] = id
         THEN <<Head(calls)[2]>> \o CallsOf(id, Tail(calls))
         ELSE CallsOf(id, Tail(calls))

\* The number of calls of one kind the last handler made.
RECURSIVE CountMade(_, _)
CountMade(op, calls) ==
    IF calls = <<>> THEN 0
    ELSE (IF Head(calls).op = op THEN 1 ELSE 0) + CountMade(op, Tail(calls))

\* The last handler of the connection ran after disconnect had reset socket_.
RanAfterDisconnect ==
    LastHandler \in {"on_data", "on_keepalive"} /\ LastFrom = "null"

\* The step is the run of a callback the connection makes into the client:
\* the read is completed, or an element of it is dispatched (a terminal type
\* reaches the client only while its request is queued).
ClientEvent ==
    \/ rx_active /\ ~rx_active'
    \/ /\ rx_pos' = rx_pos + 1
       /\ rx[rx_pos'].k = "ttype" => tt_fired' # tt_fired

\* The kind of state object that belongs to a session state.
KindOf(st) ==
    CASE st = "init" -> "null"
      [] st = "setup" -> "setup_state"
      [] st = "main" -> "main_state"
      [] st = "dead" -> "dead_state"

\* The call uses the main_state: a member function of it is called, or it
\* writes a repaint.
MainStateAccess(c) ==
    \/ c.who = "main_state"
    \/ /\ c.op = "write"
       /\ \E k \in 1..Len(c.arg) : c.arg[k].of.what = "repaint"

\* The option an outbound token, or a received element, belongs to.
OptionOf(token) == IF token.what = CompressionStarts.what THEN "mccp" ELSE "terminal_type"
ElementOption(e) == IF e.k = "mccp" THEN "mccp" ELSE "terminal_type"

\* The state-changed events of the terminal-type negotiator in a trace.
StateChanges(calls) == {i \in 1..Len(calls) : calls[i].op = "on_state_changed"}

\* The state of the terminal-type negotiator before event i of a trace, given
\* its state when the handler started.
StateBefore(calls, i, state0) ==
    LET prior == {j \in StateChanges(calls) : j < i}
    IN  IF prior = {} THEN state0
        ELSE calls[CHOOSE j \in prior : \A h \in prior : h <= j].who

\* The number of items on the wire that carry a token of one kind.
Carried(what, stream) == Cardinality({i \in 1..Len(stream) : stream[i].of.what = what})

\* ------------------------------------------------------------------ claims

\* C1: Dead is absorbing and the session state never moves backwards: every
\* handler that finds the client Dead leaves it Dead, and no handler lowers
\* the state in the order Init < Setup < Main < Dead.
C1_DeadAbsorbing ==
    [][/\ connection_state_ = "dead" => connection_state_' = "dead"
       /\ Rank(connection_state_') >= Rank(connection_state_)]_vars

C1_Witness ==
    /\ connection_state_ = "dead"
    /\ LastFrom = "dead"
    /\ LastHandler \in {"handle_data", "terminal_type", "window_size_changed"}

\* C2: an event delivered while the client is Dead (payload, terminal type,
\* window size, completion of a read) neither calls connection.async_read
\* nor writes.
C2_DeadEventsAreNoOps ==
    (LastHandler \in ClientHandlers /\ LastFrom = "dead")
        => ~Made("async_read") /\ ~Made("write")

\* C3: at most one asynchronous read requested by the client is outstanding
\* on its connection at any time.
C3_AtMostOneOutstandingRead == Outstanding <= 1

\* C4 (as claimed): Dead is entered only from Main, only when the read yielded
\* no payload, and only while the connection is not alive.
C4_DeadOnlyFromMainWithoutData ==
    [][(connection_state_ # "dead" /\ connection_state_' = "dead")
        => /\ dead_from' = "main"
           /\ ~alive
           /\ ~DeliveredPayload(rx_pos')]_vars

\* C4 (amended): Dead is entered only while the connection is not alive, and
\* only in two ways: a read-complete continuation finds the connection dead
\* (from Setup or from Main, whatever the read delivered), or main_state's
\* handle_data is given empty data.
C4_DeadOnlyWhenNotAlive ==
    [][(connection_state_ # "dead" /\ connection_state_' = "dead")
        => /\ ~alive
           /\ \/ /\ dead_cause'.handler = "read_complete"
                 /\ dead_from' \in {"setup", "main"}
              \/ /\ dead_cause'.after = Call("handle_data", "main_state", <<>>)
                 /\ dead_from' = "main"]_vars

C4_Witness ==
    /\ connection_state_ = "dead"
    /\ dead_from = "setup"
    /\ dead_cause.handler = "read_complete"
    /\ \E i \in 1..Len(dead_cause.read) :
        dead_cause.read[i].k = "text" /\ dead_cause.read[i].data # <<>>

\* C5: payload that arrives in Setup is appended to the Setup buffer verbatim
\* and in order; entering Main hands exactly that concatenation, once, to
\* main_state's handle_data before any read is scheduled, and empties the
\* buffer.
C5_SetupPayloadReplayed ==
    /\ constructed.main_state = 0
        => discarded_data_ = setup_arrived /\ replayed = <<>>
    /\ constructed.main_state > 0
        => /\ replayed = <<setup_arrived>>
           /\ discarded_data_ = <<>>
    /\ EnteredMain
        => \E j \in 1..Len(trace) :
            /\ trace[j] = Call("handle_data", "main_state", setup_arrived)
            /\ \A i \in 1..Len(trace) :
                /\ trace[i].op = "async_read" => j < i
                /\ (trace[i].op = "handle_data" /\ trace[i].who = "main_state") => i = j

C5_Witness ==
    /\ connection_state_ = "main"
    /\ setup_arrived = <<2, 1>>
    /\ replayed = <<(<<2, 1>>)>>
    /\ discarded_data_ = <<>>

\* C6 (as claimed): when a buffer received in Setup holds a terminal-type
\* report followed by payload, the client's terminal-type continuation has
\* fired exactly once, with the reported value, and the payload has been
\* put in the Setup buffer.
C6_PayloadAfterTypeBuffered ==
    \A i \in 1..Len(rx) :
        TypeThenPayload(i)
            => /\ tt_fired = <<rx[i].type>>
               /\ IsSuffix(rx[rx_pos].data, setup_arrived)

\* C6 (amended): in that case the continuation has fired exactly once with
\* the reported value, and the payload never reaches the Setup buffer: it is
\* handed directly to handle_data of the state object current by then:
\* main_state, or dead_state if the connection is no longer alive and the
\* client has already gone on from Main to Dead.
C6_PayloadAfterTypeLive ==
    \A i \in 1..Len(rx) :
        TypeThenPayload(i)
            => /\ tt_fired = <<rx[i].type>>
               /\ discarded_data_ = <<>>
               /\ replayed = <<setup_arrived>>
               /\ \/ /\ LastFrom = "main"
                     /\ trace[3] = Call("handle_data", "main_state", rx[rx_pos].data)
                  \/ /\ LastFrom = "dead"
                     /\ trace[3] = Call("handle_data", "dead_state", rx[rx_pos].data)
                     /\ ~alive
                     /\ dead_from = "main"

C6_Witness ==
    /\ TypeThenPayload(1)
    /\ rx[1].type = "xterm"
    /\ rx[2].data = <<1, 2>>
    /\ connection_state_ = "main"

\* C7: a window size reported in Setup leaves the state Setup and is
\* recorded, and the first repaint written once Main starts uses that size.
C7_FirstRepaintUsesReportedSize ==
    /\ (LastHandler = "window_size_changed" /\ LastFrom = "setup")
        => /\ connection_state_ = "setup"
           /\ <<window_width_, window_height_>> = setup_size
    /\ first_repaint # <<>> => first_repaint = setup_size

\* C8: an event whose resulting state is the state it found constructs no
\* state object; main_state and setup_state are each constructed at most once.
C8_NoReinitOnSameState ==
    /\ constructed.main_state <= 1
    /\ constructed.setup_state <= 1
    /\ (LastHandler \in ClientHandlers /\ LastFrom = connection_state_) => ~Made("new")

C8_Witness ==
    /\ connection_state_ = "main"
    /\ LastFrom = "main"
    /\ LastHandler \in {"handle_data", "window_size_changed"}
    /\ constructed.main_state = 1

\* C9: once a read that returned zero bytes on a dead transport has taken
\* the client to Dead, no further read is scheduled and the keepalive is not
\* scheduled again.
C9_DeadStopsReadsAndKeepalive ==
    [][(/\ connection_state_ = "dead"
        /\ ~alive
        /\ dead_cause.handler = "read_complete"
        /\ dead_cause.read = <<>>)
        => /\ reads' <= reads
           /\ keepalive_scheduled' => keepalive_scheduled]_vars

\* C10: once set by the first report, the stored terminal type never changes.
C10_TerminalTypeImmutable ==
    [][terminal_type_ # "" => terminal_type_' = terminal_type_]_vars

\* C11: a continuation registered with async_get_terminal_type before any
\* terminal type was reported has been invoked exactly once, with the first
\* value reported, as soon as there is a report, and not at all before; later
\* reports do not invoke it again.
C11_EarlyRequestsInvokedOnce ==
    \A id \in RequestIds :
        reg_at[id] = 0
            => CallsOf(id, tt_calls) = (IF reports = <<>> THEN <<>> ELSE <<reports[1]>>)

C11_Witness ==
    /\ \A id \in RequestIds : reg_at[id] = 0 /\ Len(CallsOf(id, tt_calls)) = 1
    /\ Len(reports) >= 2
    /\ reports[1] # reports[2]

\* C12: a continuation registered after a terminal type was reported has been
\* invoked with the cached value by the time async_get_terminal_type returns.
C12_LateRequestFulfilledAtOnce ==
    \A id \in RequestIds :
        reg_at[id] > 0 => CallsOf(id, tt_calls) # <<>>

\* C13: a read the client requested is completed once: its read-complete
\* continuation runs in the one step that ends the dispatch of that read,
\* after every element of the read has been delivered, the data continuation
\* having run for each payload chunk and for nothing else; each read the
\* transport completes takes one request.
C13_ReadCompleteOnceAfterData ==
    [][/\ (rx_active /\ ~rx_active')
            => rx_pos = Len(rx) /\ LastHandler' = "read_complete"
       /\ (LastHandler' = "read_complete" /\ trace' # trace)
            => rx_active /\ ~rx_active'
       /\ (~rx_active /\ rx_active')
            => reads' = reads - 1 /\ rx_pos' = 0
       /\ (rx_active /\ rx_active' /\ rx_pos' # rx_pos)
            => /\ rx_pos' = rx_pos + 1
               /\ (LastHandler' = "handle_data") <=> (rx[rx_pos'].k = "text")
       /\ (LastHandler' = "handle_data" /\ trace' # trace)
            => rx_active /\ rx_active' /\ rx_pos' = rx_pos + 1]_vars

C13_Witness ==
    /\ ~rx_active
    /\ LastHandler = "read_complete"
    /\ Len(rx) = 3
    /\ rx[1].k = "text"
    /\ rx[2].k = "ttype"
    /\ rx[3].k = "text"

\* C14: every payload byte the session extracted from the received buffers
\* has reached the application's data observer, whether or not the observer
\* was registered when the byte arrived.
C14_NoPayloadDropped == data_delivered = payload_received

\* C15: a read or keepalive handler that runs after disconnect has released
\* the socket finds the connection not alive and stops: the process does not
\* fault, nothing is used through socket_, nothing is written, no read and no
\* keepalive wait is started.
C15_InFlightHandlersStop ==
    RanAfterDisconnect
        => /\ ~crashed
           /\ ~Made("undefined")
           /\ ~Made("write")
           /\ ~Made("async_read")
           /\ ~Made("async_wait")

\* C16: a keepalive tick whose wait ended without error while the transport
\* is alive writes one no-op and starts the next wait of 30; any other tick
\* writes nothing and starts no wait, and once no wait is pending none is
\* ever started again.
C16_KeepaliveLoop ==
    /\ [](LastHandler = "on_keepalive"
            => IF trace[3].who = "ok" /\ trace[4].who = "alive"
               THEN /\ CountMade("write", trace) = 1
                    /\ Made("async_wait")
                    /\ trace[Len(trace)] = Call("async_wait", "keepalive_timer_", <<30>>)
                    /\ keepalive_scheduled
               ELSE /\ ~Made("write")
                    /\ ~Made("async_wait")
                    /\ ~keepalive_scheduled)
    /\ [][~keepalive_scheduled => ~keepalive_scheduled']_vars

\* C17: no two handlers of the same connection are ever being executed at
\* the same time, however many threads run the io_service.
C17_OneHandlerPerConnection ==
    \A t1, t2 \in Threads :
        Overlap(t1, t2) => running[t1].conn # running[t2].conn

\* C18: no two handlers that call into the bookkeeping callbacks of the
\* application (on_accept, on_window_size_changed, on_terminal_type,
\* on_connection_death) are ever being executed at the same time, for the same
\* or for different connections.
C18_BookkeepingSerialized ==
    \A t1, t2 \in Threads :
        Overlap(t1, t2) => running[t1].calls = "none" \/ running[t2].calls = "none"

\* C19: every connection that has an entry in pending_sizes_ is an element of
\* pending_connections_, after any sequence of accept, window-size,
\* terminal-type and death callbacks run one at a time.
C19_SizesOnlyOfPending == DOMAIN pending_sizes_ \subseteq Range(pending_connections_)

C19_Witness ==
    /\ app_last.callback \in {"on_terminal_type", "on_connection_death"}
    /\ app_last.tracked
    /\ app_last.sized
    /\ pending_sizes_ # <<>>

\* C20: a terminal-type or window-size report for a connection that is not in
\* pending_connections_ changes neither pending_connections_ nor
\* pending_sizes_.
C20_StrayReportIsNoOp ==
    [][(/\ app_last'.callback \in {"on_terminal_type", "on_window_size_changed"}
        /\ app_last'.conn \notin Range(pending_connections_))
        => UNCHANGED <<pending_connections_, pending_sizes_>>]_vars

C20_Witness ==
    /\ app_last.callback \in {"on_terminal_type", "on_window_size_changed"}
    /\ ~app_last.tracked
    /\ pending_connections_ # <<>>

\* C21: the terminal type of a pending connection, or its death, removes that
\* connection from pending_connections_ and from pending_sizes_ and leaves
\* the entries of every other connection as they were, in their order.
C21_OnlyOwnEntriesRemoved ==
    [][(/\ app_last'.callback \in {"on_terminal_type", "on_connection_death"}
        /\ app_last'.tracked)
        => /\ pending_connections_' =
                SelectSeq(pending_connections_, LAMBDA k : k # app_last'.conn)
           /\ app_last'.conn \notin Range(pending_connections_')
           /\ pending_sizes_' = erase(pending_sizes_, app_last'.conn)
           /\ app_last'.conn \notin DOMAIN pending_sizes_']_vars

C21_Witness ==
    /\ app_last.callback = "on_terminal_type"
    /\ app_last.tracked
    /\ app_last.sized
    /\ pending_connections_ # <<>>
    /\ DOMAIN pending_sizes_ = Range(pending_connections_)

\* C22: on_window_size_changed leaves the observer it was given as the one
\* observer of the connection, and the calls of window-size observers are, in
\* order, the NAWS updates raised while an observer was installed, each
\* passed once to the observer installed by then with the size reported, the
\* first update and repeated sizes included.
C22_ObserverCalledForEveryUpdate ==
    /\ LastHandler = "on_window_size_changed" => on_window_size_changed_ = trace[3].who
    /\ notified = SelectSeq(naws_updates, LAMBDA u : u[1] # "none")

C22_Witness ==
    /\ Len(naws_updates) = 3
    /\ notified = << <<"first_observer", <<100, 40>> >>,
                     <<"second_observer", <<DefaultWidth, DefaultHeight>> >>,
                     <<"second_observer", <<DefaultWidth, DefaultHeight>> >> >>

\* C23: what the constructor of the connection puts on the socket is the
\* activation requests of Echo, Suppress-Go-Ahead, NAWS, Terminal-Type and
\* Compression, in that order and uncompressed, and nothing else: nothing that
\* belongs to compression precedes the other four requests.
C23_ActivationsInOrder ==
    LastHandler = "impl"
        => /\ wire = [i \in 1..5 |->
                        Plain(Token("activate",
                                    <<(<<"echo", "suppress_ga", "naws",
                                         "terminal_type", "mccp">>)[i]>>))]
           /\ \A i \in 1..4 : wire[i].of.arg # <<"mccp">> /\ wire[i].of.what = "activate"
           /\ ~telnet_mccp_codec_.compressing

C23_Witness ==
    /\ LastHandler = "impl"
    /\ Len(wire) = 5
    /\ wire[5].of = Token("activate", <<"mccp">>)
    /\ telnet_mccp_server_ = [state |-> "negotiating", requested |-> TRUE]
    /\ sock_read

C25_SplitIndependent ==
    /\ data_delivered = PayloadOf(parse(stream_in).elements)
    /\ payload_received = data_delivered
    /\ unparsed_buffer_ = parse(stream_in).rest

C25_Witness ==
    /\ LastHandler = "on_data"
    /\ stream_in = <<1, IAC, DO, 1, 1>>
    /\ rx = <<1, 1>>
    /\ data_delivered = <<1, 1>>
    /\ unparsed_buffer_ = <<>>

\* C26: payload written through connection::write once the compressor is on
\* goes to the socket compressed, once, and what the remote end decodes from
\* the bytes that reach it is that payload and nothing else; they reach it
\* if the transport is alive.
C26_CompressionRoundTrip ==
    (LastHandler = "write" /\ telnet_mccp_codec_.compressing)
        => /\ wire = <<Compressed(Token("text", trace[3].arg))>>
           /\ peer_got \in {<<>>, <<Token("text", trace[3].arg)>>}
           /\ alive => peer_got # <<>>

C26_Witness ==
    /\ LastHandler = "write"
    /\ telnet_mccp_codec_.compressing
    /\ trace[3] = Call("payload", "application", <<2>>)
    /\ wire # <<>>
    /\ wire[1].z
    /\ peer_got = <<Token("text", <<2>>)>>

\* C27: once is_alive() of a connection is false it stays false, whatever is
\* read or written, whenever the keepalive ticks and whenever the connection
\* is disconnected.
C27_IsAliveMonotone == [][~is_alive(Cur) => ~is_alive(Cur)']_vars

C27_Witness ==
    /\ ~is_alive(Cur)
    /\ socket_ = "null"
    /\ LastHandler = "write"
    /\ Made("undefined")
    /\ ~crashed

\* C28: every event of the client that leaves it in Setup or in Main has
\* called async_read, so that a read is requested of the connection when the
\* handler returns; and while the client is in Setup or Main a read is
\* always requested or being dispatched.
C28_ReadScheduledUnlessDead ==
    /\ [](connection_state_ \in {"setup", "main"} => Outstanding >= 1)
    /\ [][(ClientEvent /\ connection_state_' \in {"setup", "main"})
            => /\ reads' >= 1
               /\ \E i \in 1..Len(trace') : trace'[i].op = "async_read"]_vars

C28_Witness ==
    /\ connection_state_ = "main"
    /\ LastFrom = "setup"
    /\ LastHandler = "terminal_type"
    /\ Made("async_read")
    /\ reads >= 1
    /\ rx_active

\* C29: when the terminal type arrives in Setup with the Setup buffer empty
\* and the connection not alive, so that the replay inside enter_main_state
\* takes the client from Main to Dead, the handler schedules no read and
\* leaves the state Dead with the dead_state installed.
C29_NestedDeadSchedulesNoRead ==
    (/\ LastHandler = "terminal_type"
     /\ LastFrom = "setup"
     /\ EnteredMain
     /\ replayed = << <<>> >>
     /\ connection_state_ = "dead")
        => /\ state_ = "dead_state"
           /\ dead_from = "main"
           /\ ~Made("async_read")

\* C30: between any two callbacks the client is in Setup, Main or Dead and
\* state_ points to the state object of that kind, so that every event is
\* dispatched to an object that handles it; no callback finds the client in
\* Init, and every handle_data call, the replay inside enter_main_state
\* included, goes to a state object.
C30_StateObjectMatches ==
    /\ connection_state_ \in {"setup", "main", "dead"}
    /\ state_ = KindOf(connection_state_)
    /\ LastHandler \in ClientHandlers => LastFrom \in {"setup", "main", "dead"}
    /\ \A i \in 1..Len(trace) :
        trace[i].op = "handle_data"
            => trace[i].who \in {"setup_state", "main_state", "dead_state"}

C30_Witness ==
    /\ constructed = [setup_state |-> 1, main_state |-> 1, dead_state |-> 1]
    /\ state_ = "dead_state"
    /\ LastHandler = "window_size_changed"
    /\ LastFrom = "dead"


\* C31: a window-size report dispatched while the client is in Main makes
\* the canvas that size, writes exactly one repaint (of that size) to the
\* connection and leaves the client in Main; payload dispatched in Main
\* leaves the client in Main unless it is empty and the connection is not
\* alive.
C31_MainForwardsLive ==
    [][(rx_pos' = rx_pos + 1 /\ connection_state_ = "main")
        => LET e == rx[rx_pos']
           IN  /\ e.k = "naws"
                    => /\ canvas_' = e.size
                       /\ repaints' = repaints + 1
                       /\ CountMade("write", trace') = 1
                       /\ Len(wire') = 1
                       /\ wire'[1].of.what = "repaint"
                       /\ wire'[1].of.arg = e.size
                       /\ connection_state_' = "main"
               /\ e.k = "text"
                    => connection_state_' =
                            (IF e.data = <<>> /\ ~alive THEN "dead" ELSE "main")]_vars

C31_Witness ==
    /\ LastHandler = "window_size_changed"
    /\ LastFrom = "main"
    /\ connection_state_ = "main"
    /\ canvas_ = <<100, 40>>
    /\ repaints = 2
    /\ ~alive


\* C32: the main_state does not outlive Main: while the client is Dead the
\* dead_state is installed and no canvas exists; the handler that enters Dead
\* does not use the main_state once it has installed the dead_state; and no
\* handler that finds the client Dead (a window-size report, payload, a
\* completed read, the keepalive) uses it, repaints or changes state_.
C32_MainStateReleased ==
    /\ [](/\ connection_state_ = "dead" => state_ = "dead_state" /\ canvas_ = <<>>
          /\ \A i, j \in 1..Len(trace) :
                (trace[j] = Call("new", "dead_state", <<>>) /\ j < i)
                    => ~MainStateAccess(trace[i])
          /\ LastFrom = "dead" => \A i \in 1..Len(trace) : ~MainStateAccess(trace[i]))
    /\ [][connection_state_ = "dead"
            => repaints' = repaints /\ canvas_' = <<>> /\ state_' = "dead_state"]_vars

C32_Witness ==
    /\ connection_state_ = "dead"
    /\ dead_from = "main"
    /\ repaints = 2
    /\ LastHandler = "window_size_changed"
    /\ LastFrom = "dead"


\* C33: the handler that takes the client to Dead invokes connection_died_
\* exactly once, and no handler that leaves the client in another state
\* invokes it.
C33_ConnectionDiedOnDead ==
    /\ [](connection_state_ # "dead" => CountMade("connection_died_", trace) = 0)
    /\ [][(connection_state_ # "dead" /\ connection_state_' = "dead")
            => CountMade("connection_died_", trace') = 1]_vars


\* C34: when the read handler has run on a buffer, what it put on the socket
\* is exactly the replies of the negotiators to that buffer (a request for
\* the terminal type for each state-changed event that found the option
\* active, an answer to each unrequested announcement, and the start of
\* compression when that option became active), in the order of the elements
\* that caused them, and every write precedes the scheduling of the next read.
C34_RepliesWrittenBeforeNextRead ==
    [][(rx_active /\ ~rx_active')
        => /\ \A i, j \in 1..Len(trace') :
                (trace'[i].op = "write" /\ trace'[j].op = "async_read") => i < j
           /\ Carried(RequestTerminalType.what, wire')
                = Cardinality({i \in StateChanges(trace') : trace'[i].who = "active"})
           /\ Carried(AcceptTerminalType.what, wire')
                = Cardinality({i \in StateChanges(trace') :
                        /\ trace'[i].who = "active"
                        /\ StateBefore(trace', i, telnet_terminal_type_client_) = "inactive"})
           /\ Carried(CompressionStarts.what, wire')
                = (IF telnet_mccp_server_.state # "active"
                        /\ telnet_mccp_server_'.state = "active" THEN 1 ELSE 0)
           /\ Len(wire') = Carried(RequestTerminalType.what, wire')
                            + Carried(AcceptTerminalType.what, wire')
                            + Carried(CompressionStarts.what, wire')
           /\ \E f \in [1..Len(wire') -> 1..Len(rx)] :
                /\ \A i, j \in 1..Len(wire') : i <= j => f[i] <= f[j]
                /\ \A i \in 1..Len(wire') : ElementOption(rx[f[i]]) = OptionOf(wire'[i].of)]_vars

C34_Witness ==
    /\ LastHandler = "on_data"
    /\ Len(wire) = 2
    /\ wire[1].of.what = CompressionStarts.what
    /\ wire[2].of.what = RequestTerminalType.what
    /\ wire[2].z
    /\ trace[Len(trace)].op = "async_read"


\* C35: in every run of the read handler, each state-changed event of the
\* terminal-type negotiator that finds the option active is followed at once
\* by one request for the terminal type, each that finds it not active by
\* none, no request is made otherwise, and every request made is written.
C35_RequestIffActive ==
    LastHandler = "on_data"
        => /\ \A i \in StateChanges(trace) :
                trace[i].who = "active"
                    <=> (i < Len(trace) /\ trace[i + 1].op = RequestTerminalType.what)
           /\ \A i \in 1..Len(trace) :
                trace[i].op = RequestTerminalType.what
                    => (i - 1) \in StateChanges(trace)
           /\ Carried(RequestTerminalType.what, wire)
                = CountMade(RequestTerminalType.what, trace)

\* The remote withdraws the option, then announces it and announces it
\* again in one buffer: an answer and two requests.
C35_Witness ==
    /\ LastHandler = "on_data"
    /\ ~rx_active
    /\ rx = <<TerminalTypeOption("will"), TerminalTypeOption("will")>>
    /\ Cardinality(StateChanges(trace)) = 2
    /\ Carried(AcceptTerminalType.what, wire) = 1
    /\ Carried(RequestTerminalType.what, wire) = 2


\* C36: the read handler of a connection does not destroy the connection:
\* when a callback it made has let go of the last reference, the handler
\* uses no member of the connection afterwards and schedules no read.
C36_NotDestroyedInOwnCallback ==
    LastHandler = "on_data"
        => /\ ~Made("~connection")
           /\ \A i, j \in 1..Len(trace) :
                (trace[i].op = "on_terminal_type" /\ trace[i].who = "application" /\ i < j)
                    => trace[j].op \notin {"undefined", "write", "async_read"}


\* C37: every read the read handler asks of the socket is asked while the
\* socket is set and alive, and asks for at least one byte.
C37_ReadsOnlyWhileAlive ==
    [][(rx_active /\ ~rx_active')
        => \A i \in 1..Len(trace') :
            trace'[i].op = "async_read"
                => /\ socket_ = "set"
                   /\ alive
                   /\ trace'[i].arg[1] >= 1]_vars


\* C38: whatever state the connection is in, disconnecting it twice in a
\* row closes the socket at most once, and the second call closes nothing and
\* leaves every field as the first call left it; and every disconnect of a
\* connection that has been disconnected before closes nothing and leaves the
\* socket released and the callbacks as they were.
C38_DisconnectIdempotent ==
    /\ [](LET once == disconnect(Enter(Cur, "disconnect", "fault"))
              twice == disconnect(Enter(once, "disconnect", "fault"))
          IN  /\ CountMade("close", once.trace) <= 1
              /\ CountMade("close", twice.trace) = 0
              /\ [twice EXCEPT !.trace = once.trace] = once)
    /\ [][(socket_ = "null" /\ trace' # trace /\ trace'[1].who = "disconnect")
            => /\ \A i \in 1..Len(trace') : trace'[i].op # "close"
               /\ UNCHANGED <<socket_, alive, keepalive_scheduled, sock_read,
                              terminal_type_, terminal_type_requests_,
                              on_window_size_changed_, on_data_read_, crashed>>]_vars

C38_Witness ==
    /\ LastHandler = "disconnect"
    /\ LastFrom = "null"
    /\ socket_ = "null"
    /\ timer_fired = "aborted"
    /\ ~crashed

====
